---------------------------- MODULE Spec2Model ----------------------------
(***************************************************************************)
(* The iCloud photo uploader (src/icloud_photo_uploader.py) and the iCloud *)
(* media lister (src/icloud_media_lister.py).                              *)
(*                                                                         *)
(* Spec is the uploader: a sequence of command-line invocations against    *)
(* one todo database (table todo_photos) and one iCloud account, each      *)
(* invocation running upload_photo for its photos on a bounded thread      *)
(* pool.  The uploads (network) and the status write of a worker thread    *)
(* (sqlite3 error, e.g. "database is locked" among concurrent writers) can *)
(* raise.  The database calls of the main thread (init_database,           *)
(* add_to_todo, read_todo_list, get_todo_stats) run while no worker is     *)
(* alive; they are modelled on a usable database file, so their except     *)
(* branches are not taken.                                                 *)
(*                                                                         *)
(* SpecLister is the lister: get_media_info followed by the filter, sort   *)
(* and limit of main, applied to a bounded media library.                  *)
(***************************************************************************)
EXTENDS Integers, Sequences, FiniteSets, TLC

(* Bounds of the model. *)
MaxPaths == 2
MaxThreads == 2
MaxItems == 3

Paths == 1..MaxPaths
Threads == 1..MaxThreads
Exts == {".jpg", ".JPEG", ".png"}
Modes == {"directory", "retry", "stats"}

VARIABLES
  rows,        \* table todo_photos: set of [id, photo_path, status]
  albumCount,  \* number of iCloud albums titled args.album (ids 1..albumCount)
  pc,          \* position of main: idle (no process), parsed, auth, upload, done
  mode,        \* which of --directory / --retry / --stats was given
  hasUser,     \* args.username given
  album,       \* args.album given
  threads,     \* args.threads
  photos,      \* the list `photos` of main
  tstate,      \* per photo: state of its upload_photo task
  seenAlbum,   \* per photo: albums[album_name] of the task's last listing (0: absent)
  addedTo,     \* per photo: the album its upload went to (0: none / Camera Roll)
  collected,   \* number of futures whose result main has taken
  successful,  \* main's counter
  failed,      \* main's counter
  exitCode,    \* return value of main (-1 while running)
  logs,        \* messages logged by the invocation
  reported,    \* <<pending, completed>> counts logged by --stats
  authed,      \* authenticate_icloud was called
  scanned,     \* scan_directory was called
  created,     \* create_album calls that succeeded in this invocation
  rows0        \* history: the table when the invocation started

VARIABLES
  library,     \* the account's media, in the order api.photos.all yields it
  hasVideos,   \* whether api.photos.albums has the 'Videos' smart folder
  lpc,         \* position of the lister's main: start, fetched, printed, failed
  mediaType,   \* args.type
  media_list,  \* the list returned by get_media_info
  min_size,    \* args.min_size: <<>> when not given, else <<MB>>
  limit,       \* args.limit: <<>> when not given, else <<n>>
  listing      \* the detailed listing that main prints

lvars == <<library, hasVideos, lpc, mediaType, media_list, min_size, limit, listing>>

uvars == <<rows, albumCount, pc, mode, hasUser, album, threads, photos, tstate,
           seenAlbum, addedTo, collected, successful, failed, exitCode, logs,
           reported, authed, scanned, created, rows0>>

(* ------------------------------------------------------------------ *)
(* Sequences and sets                                                  *)
(* ------------------------------------------------------------------ *)
Range(s) == {s[i] : i \in DOMAIN s}

Min(S) == CHOOSE x \in S : \A y \in S : x <= y

Max0(S) == IF S = {} THEN 0 ELSE CHOOSE x \in S : \A y \in S : y <= x

RECURSIVE SortedSeq(_)
SortedSeq(S) == IF S = {} THEN <<>> ELSE <<Min(S)>> \o SortedSeq(S \ {Min(S)})

(* ------------------------------------------------------------------ *)
(* The todo database                                                   *)
(* ------------------------------------------------------------------ *)
HasRow(rs, p) == \E r \in rs : r.photo_path = p

StatusOf(rs, p) == (CHOOSE r \in rs : r.photo_path = p).status

PathsWith(rs, s) == {r.photo_path : r \in {x \in rs : x.status = s}}

NewRow(rs, p) ==
  [id |-> Max0({r.id : r \in rs}) + 1, photo_path |-> p, status |-> "pending"]

(* INSERT OR REPLACE: a conflicting row is replaced by a fresh pending row. *)
InsertOrReplace(rs, p) ==
  {r \in rs : r.photo_path # p} \cup {NewRow(rs, p)}

(* INSERT OR IGNORE against photo_path TEXT UNIQUE. *)
InsertOrIgnore(rs, p) ==
  IF HasRow(rs, p) THEN rs ELSE rs \cup {NewRow(rs, p)}

RECURSIVE AddToTodo(_, _)
AddToTodo(rs, paths) ==
  IF paths = <<>> THEN rs
  ELSE AddToTodo(InsertOrIgnore(rs, Head(paths)), Tail(paths))

(* The UPDATE is never committed. *)
RemoveFromTodoNoCommit(rs, p) == rs

RemoveFromTodo(rs, p) ==
  {IF r.photo_path = p THEN [r EXCEPT !.status = "completed"] ELSE r : r \in rs}

RECURSIVE RowsById(_)
RowsById(rs) ==
  IF rs = {} THEN <<>>
  ELSE LET r == CHOOSE x \in rs : \A y \in rs : x.id <= y.id
       IN  <<r>> \o RowsById(rs \ {r})

PathsOf(rseq) == [i \in DOMAIN rseq |-> rseq[i].photo_path]

(* SELECT without the WHERE clause. *)
ReadTodoListAll(rs) == PathsOf(RowsById(rs))

(* fetchone instead of fetchall. *)
ReadTodoListOne(rs) ==
  LET all == PathsOf(RowsById({r \in rs : r.status = "pending"}))
  IN  IF all = <<>> THEN <<>> ELSE <<Head(all)>>

ReadTodoList(rs) == PathsOf(RowsById({r \in rs : r.status = "pending"}))

(* COUNT without GROUP BY: every status gets the total. *)
GetTodoStatsTotal(rs) ==
  [s \in {r.status : r \in rs} |-> Cardinality(rs)]

GetTodoStats(rs) ==
  [s \in {r.status : r \in rs} |-> Cardinality({r \in rs : r.status = s})]

StatsGet(stats, k) == IF k \in DOMAIN stats THEN stats[k] ELSE 0

(* ------------------------------------------------------------------ *)
(* Scanning                                                            *)
(* ------------------------------------------------------------------ *)
Lower(e) == IF e = ".JPEG" THEN ".jpeg" ELSE e

PHOTO_EXTENSIONS == {".jpg", ".jpeg"}

IsPhotoFile(e) == Lower(e) \in PHOTO_EXTENSIONS

ScanDirectory(files, ext) == SortedSeq({f \in files : IsPhotoFile(ext[f])})

(* ------------------------------------------------------------------ *)
(* The uploader: main                                                  *)
(* ------------------------------------------------------------------ *)
NoTasks == [p \in Paths |-> "none"]

NoAlbums == [p \in Paths |-> 0]

UInit ==
  /\ rows = {}
  /\ albumCount = 0
  /\ pc = "idle"
  /\ mode = "stats"
  /\ hasUser = FALSE
  /\ album = FALSE
  /\ threads = 1
  /\ photos = <<>>
  /\ tstate = NoTasks
  /\ seenAlbum = NoAlbums
  /\ addedTo = NoAlbums
  /\ collected = 0
  /\ successful = 0
  /\ failed = 0
  /\ exitCode = -1
  /\ logs = {}
  /\ reported = <<0, 0>>
  /\ authed = FALSE
  /\ scanned = FALSE
  /\ created = 0
  /\ rows0 = {}

(* parse_args and init_database: CREATE TABLE IF NOT EXISTS keeps the rows. *)
Invoke(m, u, a, t) ==
  /\ pc = "idle"
  /\ pc' = "parsed"
  /\ mode' = m
  /\ hasUser' = u
  /\ album' = a
  /\ threads' = t
  /\ rows0' = rows
  /\ UNCHANGED <<rows, albumCount, photos, tstate, seenAlbum, addedTo, collected,
                 successful, failed, exitCode, logs, reported, authed, scanned,
                 created>>
  /\ UNCHANGED lvars

(* if args.stats: log the counts, return 0. *)
ShowStats ==
  /\ pc = "parsed"
  /\ mode = "stats"
  /\ LET stats == GetTodoStats(rows)
     IN  reported' = <<StatsGet(stats, "pending"), StatsGet(stats, "completed")>>
  /\ logs' = logs \cup {"Upload Statistics:"}
  /\ exitCode' = 0
  /\ pc' = "done"
  /\ UNCHANGED <<rows, albumCount, mode, hasUser, album, threads, photos, tstate,
                 seenAlbum, addedTo, collected, successful, failed, authed,
                 scanned, created, rows0>>
  /\ UNCHANGED lvars

(* if not args.username: return 1. *)
RequireUsername ==
  /\ pc = "parsed"
  /\ mode # "stats"
  /\ ~hasUser
  /\ logs' = logs \cup {"Username is required for upload operations"}
  /\ exitCode' = 1
  /\ pc' = "done"
  /\ UNCHANGED <<rows, albumCount, mode, hasUser, album, threads, photos, tstate,
                 seenAlbum, addedTo, collected, successful, failed, reported,
                 authed, scanned, created, rows0>>
  /\ UNCHANGED lvars

(* if args.retry: photos = read_todo_list(). *)
RetryList ==
  /\ pc = "parsed"
  /\ mode = "retry"
  /\ hasUser
  /\ photos' = ReadTodoList(rows)
  /\ IF photos' = <<>>
     THEN /\ logs' = logs \cup {"No pending uploads found in database. Exiting."}
          /\ exitCode' = 1
          /\ pc' = "done"
     ELSE /\ pc' = "auth"
          /\ UNCHANGED <<logs, exitCode>>
  /\ UNCHANGED <<rows, albumCount, mode, hasUser, album, threads, tstate,
                 seenAlbum, addedTo, collected, successful, failed, reported,
                 authed, scanned, created, rows0>>
  /\ UNCHANGED lvars

(* else: photos = scan_directory(args.directory); add_to_todo(photos). *)
ScanAndAdd(files, ext) ==
  /\ pc = "parsed"
  /\ mode = "directory"
  /\ hasUser
  /\ scanned' = TRUE
  /\ photos' = ScanDirectory(files, ext)
  /\ IF photos' = <<>>
     THEN /\ logs' = logs \cup {"No JPEG photos found to upload. Exiting."}
          /\ exitCode' = 1
          /\ pc' = "done"
          /\ UNCHANGED rows
     ELSE /\ rows' = AddToTodo(rows, photos')
          /\ pc' = "auth"
          /\ UNCHANGED <<logs, exitCode>>
  /\ UNCHANGED <<albumCount, mode, hasUser, album, threads, tstate, seenAlbum,
                 addedTo, collected, successful, failed, reported, authed,
                 created, rows0>>
  /\ UNCHANGED lvars

(* api = authenticate_icloud(...); on success every photo is submitted. *)
Authenticate(ok) ==
  /\ pc = "auth"
  /\ authed' = TRUE
  /\ IF ok
     THEN /\ tstate' = [p \in Paths |-> IF p \in Range(photos) THEN "queued" ELSE "none"]
          /\ pc' = "upload"
          /\ UNCHANGED <<logs, exitCode>>
     ELSE /\ logs' = logs \cup {"Authentication failed. Exiting."}
          /\ exitCode' = 1
          /\ pc' = "done"
          /\ UNCHANGED tstate
  /\ UNCHANGED <<rows, albumCount, mode, hasUser, album, threads, photos,
                 seenAlbum, addedTo, collected, successful, failed, reported,
                 scanned, created, rows0>>
  /\ UNCHANGED lvars

(* ------------------------------------------------------------------ *)
(* The uploader: upload_photo on the thread pool                       *)
(* ------------------------------------------------------------------ *)
Running == {p \in Paths : tstate[p] \in {"create", "refresh", "add", "remove"}}

Finished(p) == tstate[p] \in {"ok", "fail"}

(* The pool takes the queued tasks in submission order. *)
NextQueued(p) ==
  \E i \in DOMAIN photos :
    /\ photos[i] = p
    /\ tstate[p] = "queued"
    /\ \A j \in 1..(i - 1) : tstate[photos[j]] # "queued"

(* An except branch that also records the failure in the table. *)
OnUploadErrorMarksFailed(rs, p) ==
  {IF r.photo_path = p THEN [r EXCEPT !.status = "failed"] ELSE r : r \in rs}

(* except Exception: log, return False.  The table is not touched. *)
OnUploadError(rs, p) == rs

Raise(p) ==
  /\ tstate' = [tstate EXCEPT ![p] = "fail"]
  /\ rows' = OnUploadError(rows, p)
  /\ seenAlbum' = [seenAlbum EXCEPT ![p] = 0]

(* A worker takes the task; with --album it lists api.photos.albums. *)
StartTask(p) ==
  /\ pc = "upload"
  /\ NextQueued(p)
  /\ Cardinality(Running) < threads
  /\ \/ /\ ~album
        /\ tstate' = [tstate EXCEPT ![p] = "add"]
        /\ UNCHANGED <<rows, seenAlbum>>
     \/ /\ album
        /\ seenAlbum' = [seenAlbum EXCEPT ![p] = albumCount]
        /\ tstate' = [tstate EXCEPT ![p] = IF albumCount = 0 THEN "create" ELSE "add"]
        /\ UNCHANGED rows
     \/ /\ album
        /\ Raise(p)
  /\ UNCHANGED <<albumCount, pc, mode, hasUser, album, threads, photos, addedTo,
                 collected, successful, failed, exitCode, logs, reported, authed,
                 scanned, created, rows0>>
  /\ UNCHANGED lvars

(* if album_name not in albums: api.photos.create_album(album_name). *)
CreateAlbum(p) ==
  /\ pc = "upload"
  /\ tstate[p] = "create"
  /\ \/ /\ albumCount' = albumCount + 1
        /\ created' = created + 1
        /\ tstate' = [tstate EXCEPT ![p] = "refresh"]
        /\ UNCHANGED <<rows, seenAlbum>>
     \/ /\ Raise(p)
        /\ UNCHANGED <<albumCount, created>>
  /\ UNCHANGED <<pc, mode, hasUser, album, threads, photos, addedTo, collected,
                 successful, failed, exitCode, logs, reported, authed, scanned,
                 rows0>>
  /\ UNCHANGED lvars

(* time.sleep(2); the albums are listed again.  The new album may not be *)
(* listed yet: then the task logs "Could not find or create album" and   *)
(* returns False.  A dict keyed by title keeps the last album of a title. *)
RefreshAlbums(p) ==
  /\ pc = "upload"
  /\ tstate[p] = "refresh"
  /\ \/ /\ seenAlbum' = [seenAlbum EXCEPT ![p] = albumCount]
        /\ tstate' = [tstate EXCEPT ![p] = "add"]
        /\ UNCHANGED rows
     \/ /\ tstate' = [tstate EXCEPT ![p] = "fail"]
        /\ UNCHANGED <<rows, seenAlbum>>
     \/ /\ Raise(p)
  /\ UNCHANGED <<albumCount, pc, mode, hasUser, album, threads, photos, addedTo,
                 collected, successful, failed, exitCode, logs, reported, authed,
                 scanned, created, rows0>>
  /\ UNCHANGED lvars

(* albums[album_name].add(photo_path), or api.photos.upload_file(photo_path). *)
UploadFile(p) ==
  /\ pc = "upload"
  /\ tstate[p] = "add"
  /\ \/ /\ addedTo' = [addedTo EXCEPT ![p] = seenAlbum[p]]
        /\ seenAlbum' = [seenAlbum EXCEPT ![p] = 0]
        /\ tstate' = [tstate EXCEPT ![p] = "remove"]
        /\ UNCHANGED rows
     \/ /\ Raise(p)
        /\ UNCHANGED addedTo
  /\ UNCHANGED <<albumCount, pc, mode, hasUser, album, threads, photos, collected,
                 successful, failed, exitCode, logs, reported, authed, scanned,
                 created, rows0>>
  /\ UNCHANGED lvars

(* remove_from_todo(photo_path); return True.  remove_from_todo catches  *)
(* its own sqlite3 error and logs it, so upload_photo returns True then  *)
(* as well.                                                              *)
MarkCompleted(p) ==
  /\ pc = "upload"
  /\ tstate[p] = "remove"
  /\ \/ rows' = RemoveFromTodo(rows, p)
     \/ UNCHANGED rows
  /\ tstate' = [tstate EXCEPT ![p] = "ok"]
  /\ UNCHANGED <<albumCount, pc, mode, hasUser, album, threads, photos, seenAlbum,
                 addedTo, collected, successful, failed, exitCode, logs, reported,
                 authed, scanned, created, rows0>>
  /\ UNCHANGED lvars

(* for future in upload_tasks: result = future.result(), counted as      *)
(* successful or failed.  main blocks on each future in turn and its     *)
(* counters are local, so the loop is one step taken once every task has *)
(* returned.                                                             *)
CollectResults ==
  /\ pc = "upload"
  /\ collected = 0
  /\ \A p \in Range(photos) : Finished(p)
  /\ collected' = Len(photos)
  /\ successful' = Cardinality({p \in Range(photos) : tstate[p] = "ok"})
  /\ failed' = Cardinality({p \in Range(photos) : tstate[p] # "ok"})
  /\ UNCHANGED <<rows, albumCount, pc, mode, hasUser, album, threads, photos,
                 tstate, seenAlbum, addedTo, exitCode, logs, reported, authed,
                 scanned, created, rows0>>
  /\ UNCHANGED lvars

(* Final report: stats = get_todo_stats(); return 0 if failed == 0 else 1. *)
FinalReport ==
  /\ pc = "upload"
  /\ collected = Len(photos)
  /\ LET stats == GetTodoStats(rows)
     IN  logs' = logs \cup {"Upload complete"} \cup
                 (IF StatsGet(stats, "pending") > 0
                  THEN {"photos remaining to upload"}
                  ELSE {"All photos have been uploaded successfully!"})
  /\ exitCode' = IF failed = 0 THEN 0 ELSE 1
  /\ pc' = "done"
  /\ UNCHANGED <<rows, albumCount, mode, hasUser, album, threads, photos, tstate,
                 seenAlbum, addedTo, collected, successful, failed, reported,
                 authed, scanned, created, rows0>>
  /\ UNCHANGED lvars

(* The process ends; the next invocation starts from fresh locals. *)
Exit ==
  /\ pc = "done"
  /\ pc' = "idle"
  /\ mode' = "stats"
  /\ hasUser' = FALSE
  /\ album' = FALSE
  /\ threads' = 1
  /\ photos' = <<>>
  /\ tstate' = NoTasks
  /\ seenAlbum' = NoAlbums
  /\ addedTo' = NoAlbums
  /\ collected' = 0
  /\ successful' = 0
  /\ failed' = 0
  /\ exitCode' = -1
  /\ logs' = {}
  /\ reported' = <<0, 0>>
  /\ authed' = FALSE
  /\ scanned' = FALSE
  /\ created' = 0
  /\ rows0' = rows
  /\ UNCHANGED <<rows, albumCount>>
  /\ UNCHANGED lvars

UNext ==
  \/ \E m \in Modes, u \in BOOLEAN, a \in BOOLEAN, t \in Threads : Invoke(m, u, a, t)
  \/ ShowStats
  \/ RequireUsername
  \/ RetryList
  \/ \E files \in SUBSET Paths : \E ext \in [files -> Exts] : ScanAndAdd(files, ext)
  \/ \E ok \in BOOLEAN : Authenticate(ok)
  \/ \E p \in Paths : StartTask(p)
  \/ \E p \in Paths : CreateAlbum(p)
  \/ \E p \in Paths : RefreshAlbums(p)
  \/ \E p \in Paths : UploadFile(p)
  \/ \E p \in Paths : MarkCompleted(p)
  \/ CollectResults
  \/ FinalReport
  \/ Exit

(* ------------------------------------------------------------------ *)
(* The media lister                                                    *)
(* ------------------------------------------------------------------ *)
Sizes == {1048576, 2097152}

(* A media item of the account: duration is present on videos only;    *)
(* broken items raise while their media_info is built.                 *)
Items == [size : Sizes, video : BOOLEAN, broken : BOOLEAN]

Libraries == UNION {[1..n -> Items] : n \in 0..MaxItems}

MediaTypes == {"all", "photos", "videos"}

MinSizes == {<<>>, <<0>>, <<1>>, <<2>>}

Limits == {<<>>, <<0>>, <<1>>, <<2>>}

(* Python truthiness of an optional number. *)
Truthy(opt) == opt # <<>> /\ opt[1] # 0

(* api.photos.all, each item with its position as filename. *)
AllPhotos(lib) ==
  [i \in DOMAIN lib |-> [filename |-> i, size |-> lib[i].size,
                         video |-> lib[i].video, broken |-> lib[i].broken]]

(* api.photos.albums['Videos']: the videos of the account. *)
VideosAlbum(lib) == LET IsVid(x) == x.video IN SelectSeq(AllPhotos(lib), IsVid)

MediaInfo(photo) ==
  [filename |-> photo.filename, size |-> photo.size,
   type |-> IF photo.video THEN "video" ELSE "photo"]

(* The loop of get_media_info over photos_to_process. *)
RECURSIVE ProcessPhotos(_, _)
ProcessPhotos(src, media_type) ==
  IF src = <<>> THEN <<>>
  ELSE LET photo == Head(src)
           is_video == photo.video
           skip == \/ media_type = "photos" /\ is_video
                   \/ media_type = "videos" /\ ~is_video
                   \/ photo.broken
       IN  (IF skip THEN <<>> ELSE <<MediaInfo(photo)>>)
           \o ProcessPhotos(Tail(src), media_type)

(* get_media_info: KeyError on albums['Videos'] falls back to            *)
(* get_media_info(api, 'all').                                           *)
RECURSIVE GetMediaInfo(_, _, _)
GetMediaInfo(lib, videosFolder, media_type) ==
  IF media_type = "videos" /\ ~videosFolder
  THEN GetMediaInfo(lib, videosFolder, "all")
  ELSE ProcessPhotos(IF media_type = "videos" THEN VideosAlbum(lib)
                     ELSE AllPhotos(lib), media_type)

(* min_bytes = args.min_size * 1024 * 1024 *)
MinBytes(opt) == opt[1] * 1024 * 1024

(* if args.min_size: keep m with m['size'] >= min_bytes. *)
FilterMinSize(ml, opt) ==
  IF Truthy(opt)
  THEN LET Big(m) == m.size >= MinBytes(opt) IN SelectSeq(ml, Big)
  ELSE ml

(* x goes after the items at least as large: the sort is stable. *)
InsertDesc(t, x) ==
  LET k == Cardinality({i \in DOMAIN t : t[i].size >= x.size})
  IN  SubSeq(t, 1, k) \o <<x>> \o SubSeq(t, k + 1, Len(t))

InsertAsc(t, x) ==
  LET k == Cardinality({i \in DOMAIN t : t[i].size <= x.size})
  IN  SubSeq(t, 1, k) \o <<x>> \o SubSeq(t, k + 1, Len(t))

(* sort without reverse=True. *)
RECURSIVE SortBySizeAsc(_)
SortBySizeAsc(ml) ==
  IF ml = <<>> THEN <<>>
  ELSE InsertAsc(SortBySizeAsc(SubSeq(ml, 1, Len(ml) - 1)), ml[Len(ml)])

(* media_list.sort(key=lambda x: x['size'], reverse=True) *)
RECURSIVE SortBySize(_)
SortBySize(ml) ==
  IF ml = <<>> THEN <<>>
  ELSE InsertDesc(SortBySize(SubSeq(ml, 1, Len(ml) - 1)), ml[Len(ml)])

(* if args.limit and args.limit > 0: media_list = media_list[:args.limit] *)
ApplyLimit(ml, opt) ==
  IF Truthy(opt) /\ opt[1] > 0
  THEN SubSeq(ml, 1, IF opt[1] < Len(ml) THEN opt[1] ELSE Len(ml))
  ELSE ml

LIdle ==
  /\ library = <<>>
  /\ hasVideos = FALSE
  /\ lpc = "start"
  /\ mediaType = "all"
  /\ media_list = <<>>
  /\ min_size = <<>>
  /\ limit = <<>>
  /\ listing = <<>>

LInit ==
  /\ library \in Libraries
  /\ hasVideos \in BOOLEAN
  /\ lpc = "start"
  /\ mediaType = "all"
  /\ media_list = <<>>
  /\ min_size = <<>>
  /\ limit = <<>>
  /\ listing = <<>>

(* api = authenticate_icloud(...); if not api: return 1. *)
ListerAuthFails ==
  /\ lpc = "start"
  /\ lpc' = "failed"
  /\ UNCHANGED <<library, hasVideos, mediaType, media_list, min_size, limit, listing>>
  /\ UNCHANGED uvars

(* media_list = get_media_info(api, args.type) *)
FetchMedia(t) ==
  /\ lpc = "start"
  /\ mediaType' = t
  /\ media_list' = GetMediaInfo(library, hasVideos, t)
  /\ lpc' = "fetched"
  /\ UNCHANGED <<library, hasVideos, min_size, limit, listing>>
  /\ UNCHANGED uvars

(* Filter by minimum size, sort by size, apply the limit, print. *)
PrintListing(ms, lim) ==
  /\ lpc = "fetched"
  /\ min_size' = ms
  /\ limit' = lim
  /\ listing' = ApplyLimit(SortBySize(FilterMinSize(media_list, ms)), lim)
  /\ lpc' = "printed"
  /\ UNCHANGED <<library, hasVideos, mediaType, media_list>>
  /\ UNCHANGED uvars

LNext ==
  \/ ListerAuthFails
  \/ \E t \in MediaTypes : FetchMedia(t)
  \/ \E ms \in MinSizes, lim \in Limits : PrintListing(ms, lim)

vars == <<uvars, lvars>>

Init == UInit /\ LIdle

Next == UNext

Spec == Init /\ [][Next]_vars

(* ------------------------------------------------------------------ *)
(* The uploader, resumed: one --directory run, then --retry runs       *)
(* ------------------------------------------------------------------ *)
(* The user, always giving a username, scans a directory while the     *)
(* table is empty and afterwards only retries.                         *)
InvokeResume(m, a, t) ==
  /\ m = "directory" => rows = {}
  /\ Invoke(m, TRUE, a, t)

NextResume ==
  \/ \E m \in {"directory", "retry"}, a \in BOOLEAN, t \in Threads :
       InvokeResume(m, a, t)
  \/ RetryList
  \/ \E files \in SUBSET Paths : \E ext \in [files -> Exts] : ScanAndAdd(files, ext)
  \/ \E ok \in BOOLEAN : Authenticate(ok)
  \/ \E p \in Paths : StartTask(p)
  \/ \E p \in Paths : CreateAlbum(p)
  \/ \E p \in Paths : RefreshAlbums(p)
  \/ \E p \in Paths : UploadFile(p)
  \/ \E p \in Paths : MarkCompleted(p)
  \/ CollectResults
  \/ FinalReport
  \/ Exit

(* The steps of upload_photo that do not fail. *)
StartOk(p) == StartTask(p) /\ tstate'[p] # "fail"

CreateOk(p) == CreateAlbum(p) /\ tstate'[p] = "refresh"

RefreshOk(p) == RefreshAlbums(p) /\ tstate'[p] = "add"

UploadOk(p) == UploadFile(p) /\ tstate'[p] = "remove"

MarkOk(p) == MarkCompleted(p) /\ rows' = RemoveFromTodo(rows, p)

(* Every process runs on, so --retry is invoked again and again;        *)
(* authentication, and each kind of step of upload_photo (the uploads   *)
(* and the status write among them), succeed eventually when tried      *)
(* again and again.  Fairness per kind of step is implied by fairness   *)
(* per path.                                                            *)
FairResume ==
  /\ WF_vars(NextResume)
  /\ SF_vars(Authenticate(TRUE))
  /\ SF_vars(\E p \in Paths : StartOk(p))
  /\ SF_vars(\E p \in Paths : CreateOk(p))
  /\ SF_vars(\E p \in Paths : RefreshOk(p))
  /\ SF_vars(\E p \in Paths : UploadOk(p))
  /\ SF_vars(\E p \in Paths : MarkOk(p))

SpecResume == Init /\ [][NextResume]_vars /\ FairResume

InitLister == UInit /\ LInit

NextLister == LNext

SpecLister == InitLister /\ [][NextLister]_vars

(* ------------------------------------------------------------------ *)
(* Properties of the uploader (checked under Spec)                     *)
(* ------------------------------------------------------------------ *)
Submitted == {p \in Paths : tstate[p] # "none"}

Uploaded == {p \in Paths : tstate[p] \in {"remove", "ok"}}

RowPaths(rs) == {r.photo_path : r \in rs}

UploadRan == "Upload complete" \in logs

(* C1, as stated: in every upload invocation (--directory or --retry) no *)
(* path whose record is 'completed' when the invocation starts is        *)
(* submitted for upload.                                                 *)
C1_NoCompletedPathSubmitted ==
  mode \in {"directory", "retry"} =>
    \A p \in Submitted : ~(HasRow(rows0, p) /\ StatusOf(rows0, p) = "completed")

(* C1, amended: in every --retry invocation, every path submitted for    *)
(* upload has a record that is 'pending' when the invocation starts, so  *)
(* no path recorded 'completed' is submitted.                            *)
C1_RetrySubmitsOnlyPending ==
  mode = "retry" =>
    \A p \in Submitted : HasRow(rows0, p) /\ StatusOf(rows0, p) = "pending"

C1_Witness ==
  /\ mode = "retry"
  /\ pc = "upload"
  /\ Submitted # {}
  /\ PathsWith(rows0, "completed") # {}

(* C2: every upload that upload_photo reports as successful, and that is *)
(* counted in `successful`, leaves the path's record 'completed'.        *)
C2_ReportedSuccessIsCompleted ==
  \A p \in Paths :
    tstate[p] = "ok" => HasRow(rows, p) /\ StatusOf(rows, p) = "completed"

(* C3, as stated: when the upload of a path fails, the path's record is  *)
(* given the status 'failed'.                                            *)
C3_FailedUploadMarkedFailed ==
  \A p \in Paths :
    tstate[p] = "fail" => HasRow(rows, p) /\ StatusOf(rows, p) = "failed"

(* C3, amended: when the upload of a path fails, the path's record keeps *)
(* the status it had (a new or pending record stays 'pending'); no       *)
(* record ever has the status 'failed'.                                  *)
C3_FailedUploadKeepsStatus ==
  /\ \A r \in rows : r.status \in {"pending", "completed"}
  /\ \A p \in Paths :
       tstate[p] = "fail" =>
         /\ HasRow(rows, p)
         /\ StatusOf(rows, p) =
              (IF HasRow(rows0, p) THEN StatusOf(rows0, p) ELSE "pending")

C3_Witness ==
  \E p \in Paths :
    /\ tstate[p] = "fail"
    /\ StatusOf(rows, p) = "pending"
    /\ \E q \in Paths : tstate[q] = "ok" /\ StatusOf(rows, q) = "completed"

(* C4: a --retry invocation scans nothing and adds no record; when it    *)
(* submits uploads, the paths submitted are exactly the paths whose      *)
(* record was 'pending' when it started; when no record was pending it   *)
(* neither authenticates nor submits anything.                           *)
C4_RetrySubmitsExactlyPending ==
  mode = "retry" =>
    /\ ~scanned
    /\ RowPaths(rows) = RowPaths(rows0)
    /\ Cardinality(rows) = Cardinality(rows0)
    /\ Submitted # {} => Submitted = PathsWith(rows0, "pending")
    /\ authed => Range(photos) = PathsWith(rows0, "pending")
    /\ PathsWith(rows0, "pending") = {} => ~authed /\ Submitted = {}

C4_Witness ==
  /\ mode = "retry"
  /\ pc = "done"
  /\ Cardinality(Submitted) >= 2
  /\ Submitted = PathsWith(rows0, "pending")

(* C5: add_to_todo creates a 'pending' record for exactly the paths that *)
(* had none and leaves every existing record as it was; there is at most *)
(* one record per path, and adding the same paths again changes nothing. *)
C5_AddToTodoDeduplicates ==
  /\ \A r1, r2 \in rows :
       (r1.photo_path = r2.photo_path \/ r1.id = r2.id) => r1 = r2
  /\ (mode = "directory" /\ pc = "auth") =>
       /\ rows0 \subseteq rows
       /\ RowPaths(rows \ rows0) = Range(photos) \ RowPaths(rows0)
       /\ \A r \in rows \ rows0 : r.status = "pending"
       /\ AddToTodo(rows, photos) = rows

C5_Witness ==
  /\ mode = "directory"
  /\ pc = "auth"
  /\ \E p \in Range(photos) : HasRow(rows0, p) /\ StatusOf(rows0, p) = "completed"
  /\ \E p \in Range(photos) : ~HasRow(rows0, p)

(* C6: an invocation with --stats reports the number of 'pending' and of *)
(* 'completed' records, returns 0 whether or not a username was given,   *)
(* scans nothing, does not authenticate, uploads nothing and leaves the  *)
(* table unchanged.                                                      *)
C6_StatsReadOnly ==
  (mode = "stats" /\ pc = "done") =>
    /\ reported[1] = Cardinality({r \in rows : r.status = "pending"})
    /\ reported[2] = Cardinality({r \in rows : r.status = "completed"})
    /\ exitCode = 0
    /\ ~scanned
    /\ ~authed
    /\ Submitted = {}
    /\ rows = rows0

C6_Witness ==
  /\ mode = "stats"
  /\ pc = "done"
  /\ ~hasUser
  /\ PathsWith(rows, "pending") # {}
  /\ PathsWith(rows, "completed") # {}

(* C9: in one invocation with --album, the album is created at most once *)
(* and every photo uploaded goes to the same album.                      *)
C9_AlbumCreatedOnce ==
  album =>
    /\ created <= 1
    /\ \A p, q \in Uploaded : addedTo[p] = addedTo[q]

(* C10: when an upload invocation logs "All photos have been uploaded    *)
(* successfully!", no upload of the invocation failed (failed = 0, exit  *)
(* code 0) and no record is 'pending'; successful + failed is the number *)
(* of photos submitted, and the exit code is 0 exactly when failed = 0.  *)
C10_FinalReportAgrees ==
  (pc = "done" /\ UploadRan) =>
    /\ "All photos have been uploaded successfully!" \in logs =>
         /\ failed = 0
         /\ exitCode = 0
         /\ PathsWith(rows, "pending") = {}
    /\ successful + failed = Cardinality(Submitted)
    /\ exitCode = 0 <=> failed = 0

(* ------------------------------------------------------------------ *)
(* Properties of the lister (checked under SpecLister)                 *)
(* ------------------------------------------------------------------ *)
Threshold == IF min_size = <<>> THEN 0 ELSE min_size[1] * 1048576

Matching == {j \in DOMAIN media_list : media_list[j].size >= Threshold}

Listed == {listing[i].filename : i \in DOMAIN listing}

(* C7: the listing holds only fetched items of size >= min-size MB, each *)
(* once, in non-increasing order of size; it holds all of them, or the   *)
(* first `limit` when a positive limit is given, and every listed item   *)
(* is at least as large as every matching item left out.                 *)
C7_ListingSizeSorted ==
  lpc = "printed" =>
    /\ \A i \in DOMAIN listing : \E j \in Matching : media_list[j] = listing[i]
    /\ \A i, j \in DOMAIN listing :
         i < j => /\ listing[i].size >= listing[j].size
                  /\ listing[i].filename # listing[j].filename
    /\ Len(listing) =
         (IF limit # <<>> /\ limit[1] > 0 /\ limit[1] < Cardinality(Matching)
          THEN limit[1] ELSE Cardinality(Matching))
    /\ \A j \in Matching :
         media_list[j].filename \notin Listed =>
           \A i \in DOMAIN listing : listing[i].size >= media_list[j].size

C7_Witness ==
  /\ lpc = "printed"
  /\ min_size = <<2>>
  /\ limit = <<1>>
  /\ Len(listing) = 1
  /\ Cardinality(Matching) = 2
  /\ Len(media_list) = 3
  /\ media_list[1].size < media_list[2].size

(* C8: get_media_info with type 'photos' returns only photos, with type  *)
(* 'videos' only videos (also when the 'Videos' smart folder is missing  *)
(* and the fallback is taken), and with type 'all' every item that can   *)
(* be processed.                                                         *)
C8_TypeFilterHonoured ==
  lpc = "fetched" =>
    /\ mediaType = "photos" =>
         \A i \in DOMAIN media_list : media_list[i].type = "photo"
    /\ mediaType = "videos" =>
         \A i \in DOMAIN media_list : media_list[i].type = "video"
    /\ mediaType = "all" =>
         {media_list[i].filename : i \in DOMAIN media_list} =
           {i \in DOMAIN library : ~library[i].broken}

(* ------------------------------------------------------------------ *)
(* Properties of the resumed uploader (checked under SpecResume)       *)
(* ------------------------------------------------------------------ *)
Discovered == rows # {}

Drained == \A r \in rows : r.status = "completed"

============================================================================
